---- MODULE Spec2Model ----
(***************************************************************************)
(* Model of the image cache of img-opt-server-rs (src/main.rs): the shared *)
(* HashMap behind one Mutex, the optimize_image request handler and the    *)
(* size-based eviction of enforce_cache_limit.                             *)
(***************************************************************************)
EXTENDS Integers, Sequences, FiniteSets, TLC

(* ------------------------------ bounds -------------------------------- *)
\* number of request handlers that can run concurrently
NumRequests == 2
\* number of clock advances explored
MaxTicks == 2

(* ------------------------- program constants -------------------------- *)
\* const CACHE_TTL: Duration = Duration::from_secs(3600), in seconds
CACHE_TTL == 3600
\* const CACHE_MAX_SIZE: usize = 150 * 1024 * 1024
CACHE_MAX_SIZE == 150 * 1024 * 1024

\* Option<T>: None and Some(x)
None == <<>>
Some(x) == <<x>>

(* ------------------------- inputs of the model ------------------------ *)
\* the clock advances in steps of half a TTL, so entries of age zero, of half
\* a TTL and of exactly the TTL occur (and older ones with more ticks); two
\* inserts between which the clock does not advance carry equal timestamps
TickStep == CACHE_TTL \div 2

Requests == 1..NumRequests

\* query strings the clients send (struct ImageParams)
Urls == {"u"}
Params == [image_url : Urls, width : {None, Some(0), Some(640), Some(800)},
           height : {None, Some(0)}, quality : {None, Some(80)}]

\* byte lengths of the JPEG produced by process_image (output.len()): half
\* the ceiling, exactly the ceiling, and one byte more
DataLens == {CACHE_MAX_SIZE \div 2, CACHE_MAX_SIZE, CACHE_MAX_SIZE + 1}

\* status codes the remote source answers with: a success and a failure
HttpStatuses == {200, 404}

\* bodies the remote source sends: one that decodes as an image, one that
\* does not
Bodies == {"jpeg", "html"}

(* --------------------------- pure functions --------------------------- *)
\* Option::unwrap_or
unwrap_or(opt, default) == IF opt = None THEN default ELSE opt[1]

\* mutant: the key is built with another default quality than the 80 of
\* the processing
cache_key_of_Quality75(params) ==
    params.image_url \o ":" \o ToString(unwrap_or(params.width, 0))
                     \o ":" \o ToString(unwrap_or(params.height, 0))
                     \o ":" \o ToString(unwrap_or(params.quality, 75))

\* format!("{}:{}:{}:{}", image_url, width.unwrap_or(0), height.unwrap_or(0),
\*         quality.unwrap_or(80))
cache_key_of(params) ==
    params.image_url \o ":" \o ToString(unwrap_or(params.width, 0))
                     \o ":" \o ToString(unwrap_or(params.height, 0))
                     \o ":" \o ToString(unwrap_or(params.quality, 80))

Keys == {cache_key_of(p) : p \in Params}

\* format!("{:x}", Sha1::digest(&result.data)): the digest is a function of
\* the bytes alone, kept symbolic
Sha1Hex(data) == "sha1(" \o ToString(data) \o ")"

\* Vec::len of the payload
DataLen(data) == data.len

\* the values process_image can return (etag is the empty placeholder); a
\* payload is known by its byte length, and original_width and
\* original_height, which the cache never reads, are left out
ProcessedImageResult == [data : [len : DataLens], content_type : {"image/jpeg"},
                         etag : {""}]

\* the Mutex is free
NoOwner == 0
\* the handler has no request
NoKey == "NoKey"

BAD_REQUEST == 400
INTERNAL_SERVER_ERROR == 500
OK == 200

VARIABLES cache, lock, now, pc, cache_key, result, response, total_size, keys,
          params, http_response, image_bytes

vars == <<cache, lock, now, pc, cache_key, result, response, total_size, keys,
          params, http_response, image_bytes>>

\* keys present in the HashMap: the map is a function on them
Present(c) == DOMAIN c

\* a map without the binding of k
Without(f, k) == [x \in DOMAIN f \ {k} |-> f[x]]

\* a map with k bound to v, in place of any earlier binding
With(f, k, v) == [x \in DOMAIN f \cup {k} |-> IF x = k THEN v ELSE f[x]]

RECURSIVE SumSizes(_, _)
\* cache.values().map(|e| e.size).sum()
SumSizes(c, ks) ==
    IF ks = {} THEN 0
    ELSE LET k == CHOOSE x \in ks : TRUE
         IN c[k].size + SumSizes(c, ks \ {k})

TotalSize(c) == SumSizes(c, Present(c))

\* all orders of the given keys
Orders(ks) == {s \in [1..Cardinality(ks) -> ks] :
                  \A i, j \in 1..Cardinality(ks) : i # j => s[i] # s[j]}

\* mutant: the comparator is reversed and the youngest entries come first
SortedKeys_NewestFirst(c) ==
    {s \in Orders(Present(c)) :
        \A i, j \in 1..Len(s) : i < j => c[s[i]].inserted >= c[s[j]].inserted}

\* mutant: the keys are taken in iteration order, without the sort
SortedKeys_Unsorted(c) == Orders(Present(c))

\* keys.sort_by_key(|(_, inserted)| *inserted) applied to cache.iter():
\* HashMap iteration order is arbitrary and the sort is stable, so every
\* order that is non-decreasing in `inserted` can result
SortedKeys(c) ==
    {s \in Orders(Present(c)) :
        \A i, j \in 1..Len(s) : i < j => c[s[i]].inserted <= c[s[j]].inserted}

\* mutant: an entry of age exactly CACHE_TTL still counts as fresh
IsFresh_Inclusive(entry, t) == t - entry.inserted <= CACHE_TTL

\* entry.inserted.elapsed() < CACHE_TTL
IsFresh(entry, t) == t - entry.inserted < CACHE_TTL

\* mutant: a total of exactly the ceiling counts as over the limit
WithinLimit_Strict(total) == total < CACHE_MAX_SIZE

\* mutant: the comparison lets one byte more through
WithinLimit_OffByOne(total) == total <= CACHE_MAX_SIZE + 1

\* total_size <= CACHE_MAX_SIZE
WithinLimit(total) == total <= CACHE_MAX_SIZE

\* mutant: the loop spares the last (youngest) key
LoopEnds_SparesLast(total, rest) == total <= CACHE_MAX_SIZE \/ Len(rest) <= 1

\* the loop of enforce_cache_limit ends: `break` once the total is within the
\* limit, or the sorted keys are used up
LoopEnds(total, rest) == WithinLimit(total) \/ rest = <<>>

\* mutant: an entry that is already stored is kept (entry().or_insert())
MapInsert_KeepsExisting(c, k, entry) == IF k \in DOMAIN c THEN c ELSE With(c, k, entry)

\* HashMap::insert: the entry of the key is added or replaced as a whole
MapInsert(c, k, entry) == With(c, k, entry)

\* HashMap::remove
MapRemove(c, k) == Without(c, k)

RECURSIVE EvictLoop(_, _, _)
\* the map that `for (key, _) in keys` leaves, as a function of the order of
\* the keys and of the total at its start
EvictLoop(c, order, total) ==
    IF order = <<>> THEN c
    ELSE LET key == Head(order)
             left == IF key \in Present(c) THEN total - c[key].size ELSE total
         IN IF LoopEnds(left, Tail(order))
            THEN MapRemove(c, key)
            ELSE EvictLoop(MapRemove(c, key), Tail(order), left)

\* the map that enforce_cache_limit leaves when the sort gives this order
AfterEnforce(c, order) ==
    IF WithinLimit(TotalSize(c)) THEN c ELSE EvictLoop(c, order, TotalSize(c))

\* mutant: the size recorded is not the length of the payload (one byte more,
\* as a capacity would be)
CacheEntry_Capacity(res, t) ==
    [result |-> res, size |-> DataLen(res.data) + 1, inserted |-> t]

\* CacheEntry { size: result.data.len(), result: result.clone(),
\*              inserted: Instant::now() }
CacheEntry(res, t) == [result |-> res, size |-> DataLen(res.data), inserted |-> t]

\* (StatusCode::OK, headers, data) with Content-Type, Cache-Control and ETag
OkResponse(res) ==
    [status |-> OK, content_type |-> res.content_type,
     cache_control |-> "public, max-age=3600", etag |-> res.etag,
     body |-> res.data]

\* Err(StatusCode)
ErrResponse(status) == [status |-> status]

Init ==
    /\ cache = <<>>
    /\ lock = NoOwner
    /\ now = 0
    /\ pc = [r \in Requests |-> "idle"]
    /\ cache_key = [r \in Requests |-> NoKey]
    /\ result = <<>>
    /\ response = <<>>
    /\ total_size = 0
    /\ keys = <<>>
    /\ params = <<>>
    /\ http_response = <<>>
    /\ image_bytes = <<>>

\* the monotonic clock behind Instant::now() advances
Tick ==
    /\ now < MaxTicks * TickStep
    /\ now' = now + TickStep
    /\ UNCHANGED <<cache, lock, pc, cache_key, result, response, total_size, keys,
                 params, http_response, image_bytes>>

\* a request arrives with its query parameters and its cache key is derived
Arrive(r) ==
    /\ pc[r] = "idle"
    /\ \E q \in Params :
          /\ params' = With(params, r, q)
          /\ cache_key' = [cache_key EXCEPT ![r] = cache_key_of(q)]
    /\ pc' = [pc EXCEPT ![r] = "lookup"]
    /\ UNCHANGED <<cache, lock, now, result, response, total_size, keys,
                 http_response, image_bytes>>

\* cache.lock().unwrap() of the lookup. The parameters are not read by the
\* model from here on (what the source sends and what process_image returns
\* are drawn from their sets), so they leave the state
LookupLock(r) ==
    /\ pc[r] = "lookup"
    /\ lock = NoOwner
    /\ lock' = r
    /\ params' = Without(params, r)
    /\ pc' = [pc EXCEPT ![r] = "locked_lookup"]
    /\ UNCHANGED <<cache, now, cache_key, result, response, total_size, keys,
                 http_response, image_bytes>>

\* mutant: a hit refreshes the timestamp of the entry (LRU) and a lookup that
\* finds an expired entry purges it
LookupGet_Touches(r) ==
    /\ pc[r] = "locked_lookup"
    /\ LET key == cache_key[r]
       IN IF key \in Present(cache) /\ IsFresh(cache[key], now)
          THEN /\ response' = With(response, r, OkResponse(cache[key].result))
               /\ cache' = [cache EXCEPT ![key].inserted = now]
               /\ pc' = [pc EXCEPT ![r] = "done"]
          ELSE /\ pc' = [pc EXCEPT ![r] = "fetch"]
               /\ cache' = MapRemove(cache, key)
               /\ UNCHANGED response
    /\ lock' = NoOwner
    /\ UNCHANGED <<now, cache_key, result, total_size, keys,
                 params, http_response, image_bytes>>

\* mutant: on a miss the guard of the lookup stays alive across the awaits
LookupGet_KeepsGuard(r) ==
    /\ pc[r] = "locked_lookup"
    /\ LET key == cache_key[r]
       IN IF key \in Present(cache) /\ IsFresh(cache[key], now)
          THEN /\ response' = With(response, r, OkResponse(cache[key].result))
               /\ pc' = [pc EXCEPT ![r] = "done"]
               /\ lock' = NoOwner
          ELSE /\ pc' = [pc EXCEPT ![r] = "fetch"]
               /\ UNCHANGED <<response, lock,
                 params, http_response, image_bytes>>
    /\ UNCHANGED <<cache, now, cache_key, result, total_size, keys,
                 params, http_response, image_bytes>>

\* .get(&cache_key), the TTL test and the hit response; the guard is a
\* temporary of the `if let` and is dropped when the statement ends
LookupGet(r) ==
    /\ pc[r] = "locked_lookup"
    /\ LET key == cache_key[r]
       IN IF key \in Present(cache) /\ IsFresh(cache[key], now)
          THEN /\ response' = With(response, r, OkResponse(cache[key].result))
               /\ pc' = [pc EXCEPT ![r] = "done"]
          ELSE /\ pc' = [pc EXCEPT ![r] = "fetch"]
               /\ UNCHANGED response
    /\ lock' = NoOwner
    /\ UNCHANGED <<cache, now, cache_key, result, total_size, keys,
                 params, http_response, image_bytes>>

\* reqwest::get(..).await succeeds: the source has answered, with any status
\* (the handler does not call error_for_status)
FetchOk(r) ==
    /\ pc[r] = "fetch"
    /\ \E status \in HttpStatuses :
          http_response' = With(http_response, r, [status |-> status])
    /\ pc' = [pc EXCEPT ![r] = "body"]
    /\ UNCHANGED <<cache, lock, now, cache_key, result, response, total_size, keys,
                 params, image_bytes>>

\* .bytes().await succeeds: the body of the answer is the image_bytes
BodyOk(r) ==
    /\ pc[r] = "body"
    /\ \E body \in Bodies : image_bytes' = With(image_bytes, r, body)
    /\ http_response' = Without(http_response, r)
    /\ pc' = [pc EXCEPT ![r] = "process"]
    /\ UNCHANGED <<cache, lock, now, cache_key, result, response, total_size, keys,
                 params>>

\* .bytes().await fails: map_err(|_| StatusCode::BAD_REQUEST)?
BodyErr(r) ==
    /\ pc[r] = "body"
    /\ http_response' = Without(http_response, r)
    /\ response' = With(response, r, ErrResponse(BAD_REQUEST))
    /\ pc' = [pc EXCEPT ![r] = "done"]
    /\ UNCHANGED <<cache, lock, now, cache_key, result, total_size, keys,
                 params, image_bytes>>

\* reqwest::get(..).await fails (no connection, no answer that parses):
\* map_err(|_| StatusCode::BAD_REQUEST)?
FetchErr(r) ==
    /\ pc[r] = "fetch"
    /\ response' = With(response, r, ErrResponse(BAD_REQUEST))
    /\ pc' = [pc EXCEPT ![r] = "done"]
    /\ UNCHANGED <<cache, lock, now, cache_key, result, total_size, keys,
                 params, http_response, image_bytes>>

\* the bytes decode as an image (with_guessed_format, reader.decode())
Decodes(bytes) == bytes = "jpeg"

\* spawn_blocking(process_image) returns Ok(result): the bytes were decoded,
\* resized and encoded
ProcessOk(r) ==
    /\ pc[r] = "process"
    /\ Decodes(image_bytes[r])
    /\ \E res \in ProcessedImageResult : result' = With(result, r, res)
    /\ image_bytes' = Without(image_bytes, r)
    /\ pc' = [pc EXCEPT ![r] = "etag"]
    /\ UNCHANGED <<cache, lock, now, cache_key, response, total_size, keys,
                 params, http_response>>

\* mutant: a failed computation drops the entry stored for the key
ProcessErr_DropsEntry(r) ==
    /\ pc[r] = "process"
    /\ response' = With(response, r, ErrResponse(INTERNAL_SERVER_ERROR))
    /\ cache' = MapRemove(cache, cache_key[r])
    /\ image_bytes' = Without(image_bytes, r)
    /\ pc' = [pc EXCEPT ![r] = "done"]
    /\ UNCHANGED <<lock, now, cache_key, result, total_size, keys,
                 params, http_response>>

\* process_image returns Err (the bytes do not decode, or the resize or the
\* encoding fails) or the blocking task panics: both map_err to
\* StatusCode::INTERNAL_SERVER_ERROR
ProcessErr(r) ==
    /\ pc[r] = "process"
    /\ response' = With(response, r, ErrResponse(INTERNAL_SERVER_ERROR))
    /\ image_bytes' = Without(image_bytes, r)
    /\ pc' = [pc EXCEPT ![r] = "done"]
    /\ UNCHANGED <<cache, lock, now, cache_key, result, total_size, keys,
                 params, http_response>>

\* mutant: the result goes on with the placeholder etag of process_image
MakeEtag_KeepsPlaceholder(r) ==
    /\ pc[r] = "etag"
    /\ pc' = [pc EXCEPT ![r] = "insert"]
    /\ UNCHANGED <<cache, lock, now, cache_key, result, response, total_size, keys,
                 params, http_response, image_bytes>>

\* let etag = format!("{:x}", Sha1::digest(&result.data));
\* let result = ProcessedImageResult { etag: etag.clone(), ..result };
MakeEtag(r) ==
    /\ pc[r] = "etag"
    /\ result' = [result EXCEPT ![r] = [result[r] EXCEPT !.etag = Sha1Hex(result[r].data)]]
    /\ pc' = [pc EXCEPT ![r] = "insert"]
    /\ UNCHANGED <<cache, lock, now, cache_key, response, total_size, keys,
                 params, http_response, image_bytes>>

\* let mut cache_lock = cache.lock().unwrap(); cache_lock.insert(..)
Insert(r) ==
    /\ pc[r] = "insert"
    /\ lock = NoOwner
    /\ lock' = r
    /\ cache' = MapInsert(cache, cache_key[r], CacheEntry(result[r], now))
    /\ pc' = [pc EXCEPT ![r] = "enforce"]
    /\ UNCHANGED <<now, cache_key, result, response, total_size, keys,
                 params, http_response, image_bytes>>

\* enforce_cache_limit up to the loop: the sum, the early return, the sort
EnforceStart(r) ==
    /\ pc[r] = "enforce"
    /\ total_size' = TotalSize(cache)
    /\ IF WithinLimit(TotalSize(cache))
       THEN /\ pc' = [pc EXCEPT ![r] = "unlock"]
            /\ UNCHANGED keys
       ELSE /\ keys' \in SortedKeys(cache)
            /\ pc' = [pc EXCEPT ![r] = "evict"]
    /\ UNCHANGED <<cache, lock, now, cache_key, result, response,
                 params, http_response, image_bytes>>

\* one iteration of `for (key, _) in keys`
EvictNext(r) ==
    /\ pc[r] = "evict"
    /\ LET key == Head(keys)
           total == IF key \in Present(cache)
                    THEN total_size - cache[key].size ELSE total_size
       IN /\ cache' = MapRemove(cache, key)
          /\ total_size' = total
          /\ keys' = Tail(keys)
          /\ pc' = [pc EXCEPT ![r] =
                       IF LoopEnds(total, Tail(keys)) THEN "unlock" ELSE "evict"]
    /\ UNCHANGED <<lock, now, cache_key, result, response,
                 params, http_response, image_bytes>>

\* the guard is dropped at the end of the block and the response is built
Unlock(r) ==
    /\ pc[r] = "unlock"
    /\ lock' = NoOwner
    /\ total_size' = 0
    /\ keys' = <<>>
    /\ response' = With(response, r, OkResponse(result[r]))
    /\ pc' = [pc EXCEPT ![r] = "done"]
    /\ UNCHANGED <<cache, now, cache_key, result,
                 params, http_response, image_bytes>>

\* the response has been sent; the handler slot serves the next request
Finish(r) ==
    /\ pc[r] = "done"
    /\ pc' = [pc EXCEPT ![r] = "idle"]
    /\ cache_key' = [cache_key EXCEPT ![r] = NoKey]
    /\ result' = Without(result, r)
    /\ response' = Without(response, r)
    /\ UNCHANGED <<cache, lock, now, total_size, keys,
                 params, http_response, image_bytes>>

Next ==
    \/ Tick
    \/ \E r \in Requests : Arrive(r)
    \/ \E r \in Requests : LookupLock(r)
    \/ \E r \in Requests : LookupGet(r)
    \/ \E r \in Requests : FetchOk(r)
    \/ \E r \in Requests : FetchErr(r)
    \/ \E r \in Requests : BodyOk(r)
    \/ \E r \in Requests : BodyErr(r)
    \/ \E r \in Requests : ProcessOk(r)
    \/ \E r \in Requests : ProcessErr(r)
    \/ \E r \in Requests : MakeEtag(r)
    \/ \E r \in Requests : Insert(r)
    \/ \E r \in Requests : EnforceStart(r)
    \/ \E r \in Requests : EvictNext(r)
    \/ \E r \in Requests : Unlock(r)
    \/ \E r \in Requests : Finish(r)

Spec == Init /\ [][Next]_vars

(* ----------------------------- fairness ------------------------------- *)
\* code that runs while the Mutex is held always runs to the unlock
CriticalSectionsEnd ==
    \A r \in Requests :
        /\ WF_vars(LookupGet(r))
        /\ WF_vars(EnforceStart(r))
        /\ WF_vars(EvictNext(r))
        /\ WF_vars(Unlock(r))

\* a handler that waits for the Mutex gets it (a fair lock), and its blocking
\* task and its synchronous code run to their end
HandlerRuns(r) ==
    /\ SF_vars(LookupLock(r))
    /\ SF_vars(Insert(r))
    /\ WF_vars(ProcessOk(r) \/ ProcessErr(r))
    /\ WF_vars(MakeEtag(r))

\* the remote source of the handler's request answers or fails
SourceAnswers(r) ==
    /\ WF_vars(FetchOk(r) \/ FetchErr(r))
    /\ WF_vars(BodyOk(r) \/ BodyErr(r))

\* every handler is scheduled fairly; nothing is assumed of the remote sources
FairSpec == Spec /\ CriticalSectionsEnd /\ \A r \in Requests : HandlerRuns(r)

\* handler 2 is scheduled fairly and its source answers; nothing is assumed of
\* handler 1 outside its critical sections: its fetch or its computation may
\* never finish
IndepSpec == Spec /\ CriticalSectionsEnd /\ HandlerRuns(2) /\ SourceAnswers(2)

(* ------------------------------ claims -------------------------------- *)
InFlight == {"fetch", "body", "process"}
InCritical == {"locked_lookup", "enforce", "evict", "unlock"}

\* C1: whenever no handler is between its insert and the end of
\* enforce_cache_limit (the lock is free, or held by a lookup, or the pass has
\* ended), the sizes of the entries in the map sum to at most CACHE_MAX_SIZE
C1_SizeCeiling ==
    (\A r \in Requests : pc[r] \notin {"enforce", "evict"})
        => TotalSize(cache) <= CACHE_MAX_SIZE

\* two handlers have completed their puts and the map is filled to the ceiling
C1_Witness ==
    /\ lock = NoOwner
    /\ Cardinality(Present(cache)) = 2
    /\ TotalSize(cache) = CACHE_MAX_SIZE
    /\ \A r \in Requests : pc[r] = "done" /\ r \in DOMAIN result

\* C2 as stated: after the eviction pass of a put of an entry larger than the
\* ceiling, the map holds exactly that entry
C2_OversizedAlone ==
    \A r \in Requests :
        (pc[r] = "unlock" /\ DataLen(result[r].data) > CACHE_MAX_SIZE)
            => Present(cache) = {cache_key[r]}

\* C2 amended: the entry larger than the ceiling is inserted, and the eviction
\* pass of the same put removes it again: the step that removes it leaves only
\* entries that carry its timestamp, and when the pass has ended the entry is
\* not in the map and the total is within the ceiling
C2_OversizedEvicted ==
    /\ [](\A r \in Requests :
            (pc[r] = "unlock" /\ DataLen(result[r].data) > CACHE_MAX_SIZE)
                => /\ cache_key[r] \notin Present(cache)
                   /\ TotalSize(cache) <= CACHE_MAX_SIZE)
    /\ [][\A r \in Requests :
            (/\ pc[r] = "evict"
             /\ DataLen(result[r].data) > CACHE_MAX_SIZE
             /\ cache_key[r] \in Present(cache)
             /\ cache_key[r] \notin Present(cache'))
                => \A k \in Present(cache') :
                      cache'[k].inserted = cache[cache_key[r]].inserted]_vars

\* the pass of a put of an oversized entry has ended and has emptied the map
C2_Witness ==
    \E r \in Requests :
        /\ pc[r] = "unlock"
        /\ DataLen(result[r].data) > CACHE_MAX_SIZE
        /\ total_size = 0
        /\ Present(cache) = {}

\* C3: every entry that a step removes from the map was inserted no later than
\* every entry that is in the map after the step
C3_EvictsOldestFirst ==
    [][\A k \in Present(cache) \ Present(cache') :
          \A k2 \in Present(cache') : cache[k].inserted <= cache'[k2].inserted]_vars

\* entries inserted at three distinct times breached the ceiling; the pass
\* removed the oldest and stopped, and the two younger ones remain
C3_Witness ==
    \E r \in Requests :
        /\ pc[r] = "unlock"
        /\ Len(keys) = 2
        /\ Present(cache) = {keys[1], keys[2]}
        /\ 0 < cache[keys[1]].inserted
        /\ cache[keys[1]].inserted < cache[keys[2]].inserted

\* C4: the lookup answers from the cache, with the stored payload, content
\* type and etag, exactly when the key has an entry of age below CACHE_TTL;
\* otherwise the handler goes on to fetch
C4_TtlLookup ==
    [][\A r \in Requests :
          (pc[r] = "locked_lookup" /\ pc'[r] # "locked_lookup")
              => IF /\ cache_key[r] \in DOMAIN cache
                    /\ now - cache[cache_key[r]].inserted < CACHE_TTL
                 THEN /\ pc'[r] = "done"
                      /\ response'[r].status = OK
                      /\ response'[r].body = cache[cache_key[r]].result.data
                      /\ response'[r].etag = cache[cache_key[r]].result.etag
                 ELSE /\ pc'[r] = "fetch"
                      /\ r \notin DOMAIN response']_vars

\* a handler missed on an entry that is in the map with an age of exactly the
\* TTL, while the other handler was answered from the cache
C4_Witness ==
    \E r, h \in Requests :
        /\ pc[r] = "fetch"
        /\ cache_key[r] \in Present(cache)
        /\ now - cache[cache_key[r]].inserted = CACHE_TTL
        /\ \A r2 \in Requests : pc[r2] \notin {"insert", "enforce", "evict", "unlock"}
        /\ pc[h] = "done"
        /\ h \notin DOMAIN result
        /\ response[h].status = OK

\* C5 as stated: no two handlers fetch or compute for the same key at once
C5_AtMostOneInFlight ==
    \A r1, r2 \in Requests :
        (/\ r1 # r2
         /\ pc[r1] \in InFlight
         /\ pc[r2] \in InFlight) => cache_key[r1] # cache_key[r2]

\* C6: a handler whose fetch or computation fails answers with an error and
\* its step leaves the map as it was; it never held a result to insert; and a
\* lookup never answers with an error, so a miss always goes on to fetch
C6_ErrorNotCached ==
    [][\A r \in Requests :
          /\ (pc[r] \in InFlight /\ pc'[r] = "done")
                => /\ cache' = cache
                   /\ response'[r].status \in {BAD_REQUEST, INTERNAL_SERVER_ERROR}
                   /\ r \notin DOMAIN result'
          /\ (pc[r] = "locked_lookup" /\ pc'[r] = "done")
                => response'[r].status = OK
          /\ (/\ pc[r] = "locked_lookup"
              /\ pc'[r] # "locked_lookup"
              /\ cache_key[r] \notin Present(cache)) => pc'[r] = "fetch"]_vars

\* a handler failed for a key while the other, after a miss on the same key,
\* fetches again; the map holds another key's entry and none for this key
C6_Witness ==
    \E r, r2 \in Requests :
        /\ pc[r] = "done"
        /\ response[r].status = INTERNAL_SERVER_ERROR
        /\ pc[r2] = "fetch"
        /\ cache_key[r2] = cache_key[r]
        /\ cache_key[r] \notin Present(cache)
        /\ Present(cache) # {}

\* C7: a handler that awaits the fetch or the blocking task does not own the
\* Mutex; the owner is always a handler in its lookup or between its insert
\* and the end of its block
C7_NoLockWhileInFlight ==
    \A r \in Requests :
        /\ pc[r] \in InFlight => lock # r
        /\ lock = r <=> pc[r] \in InCritical

\* a handler computes while the other one is inside its eviction pass
C7_Witness ==
    \E r, r2 \in Requests :
        /\ pc[r] = "process"
        /\ pc[r2] = "evict"
        /\ lock = r2

\* C8: while handler 1 fetches or computes for a key, a request of handler 2
\* for another key that waits for its lookup is answered, whether or not
\* handler 1 ever finishes
C8_DistinctKeysNotBlocked ==
    (/\ pc[2] = "lookup"
     /\ pc[1] \in InFlight
     /\ cache_key[1] # cache_key[2]) ~> pc[2] = "done"

\* handler 2 has missed, computed, inserted and answered while handler 1 is
\* still fetching for another key
C8_Witness ==
    /\ pc[1] = "fetch"
    /\ pc[2] = "done"
    /\ cache_key[1] # cache_key[2]
    /\ 2 \in DOMAIN result
    /\ response[2].status = OK
    /\ cache_key[2] \in Present(cache)

\* C9: an insert step leaves for its key the whole entry built from the
\* inserting handler's result, whatever was stored before; a stored entry
\* changes only by such a step; and every stored entry has its size and its
\* etag from its own payload
C9_LastWriterWins ==
    /\ [](\A k \in Present(cache) :
            /\ cache[k].size = cache[k].result.data.len
            /\ cache[k].result.etag = Sha1Hex(cache[k].result.data))
    /\ [][/\ \A r \in Requests :
               (pc[r] = "insert" /\ pc'[r] = "enforce")
                  => cache'[cache_key[r]] =
                        [result |-> result[r], size |-> result[r].data.len,
                         inserted |-> now]
          /\ \A k \in Present(cache') :
               (k \notin Present(cache) \/ cache'[k] # cache[k])
                  => \E r \in Requests :
                        /\ pc[r] = "insert"
                        /\ pc'[r] = "enforce"
                        /\ cache_key[r] = k
                        /\ cache'[k].result = result[r]]_vars

\* two handlers missed on the same key and inserted different payloads; the
\* stored entry is that of the handler that has just inserted the second
C9_Witness ==
    \E r, r2 \in Requests :
        /\ r # r2
        /\ cache_key[r] = cache_key[r2]
        /\ pc[r] = "done"
        /\ r \in DOMAIN result
        /\ pc[r2] = "enforce"
        /\ result[r].data # result[r2].data
        /\ cache[cache_key[r2]].result = result[r2]

\* C10 as stated: a handler that waits for its remote source always gets on,
\* to an error answer if the source stays silent
C10_FetchEnds ==
    \A r \in Requests : (pc[r] = "fetch") ~> (pc[r] # "fetch")

\* C11 as stated: an answer of the remote source with a status outside 2xx is
\* a failure of the source, surfaced as BAD_REQUEST: the handler never goes
\* on to read the body of such an answer
C11_SourceFailureIsBadRequest ==
    \A r \in Requests :
        pc[r] = "body" => http_response[r].status \in 200..299

\* C12 as stated: when the fetched bytes do not decode as an image the
\* handler answers with a client-facing status (4xx) and leaves the map as it
\* was
C12_DecodeErrorIsClientError ==
    [][\A r \in Requests :
          (pc[r] = "process" /\ ~Decodes(image_bytes[r]) /\ pc'[r] = "done")
              => /\ response'[r].status \in 400..499
                 /\ cache' = cache]_vars

\* C13: two requests whose parameters are equal once width 0, height 0 and
\* quality 80 stand in for the omitted ones (in particular two requests with
\* the same parameters) have the same cache key
C13_KeyAppliesDefaults ==
    LET Effective(p) ==
            <<p.image_url,
              IF p.width = None THEN 0 ELSE p.width[1],
              IF p.height = None THEN 0 ELSE p.height[1],
              IF p.quality = None THEN 80 ELSE p.quality[1]>>
    IN \A r1, r2 \in Requests :
          (/\ pc[r1] = "lookup"
           /\ pc[r2] = "lookup"
           /\ Effective(params[r1]) = Effective(params[r2]))
              => cache_key[r1] = cache_key[r2]

\* one request omits width, height and quality, the other passes 0, 0 and 80,
\* and both have the key "u:0:0:80"
C13_Witness ==
    \E r1, r2 \in Requests :
        /\ pc[r1] = "lookup"
        /\ pc[r2] = "lookup"
        /\ params[r1] = [image_url |-> "u", width |-> None, height |-> None,
                         quality |-> None]
        /\ params[r2] = [image_url |-> "u", width |-> Some(0), height |-> Some(0),
                         quality |-> Some(80)]
        /\ cache_key[r1] = "u:0:0:80"
        /\ cache_key[r2] = "u:0:0:80"

\* C14 as stated: from the same map contents every run of enforce_cache_limit
\* removes the same entries, whatever order the sort gives to entries of
\* equal timestamps
C14_TieBreakDeterministic ==
    \A r \in Requests :
        pc[r] = "enforce"
            => \A s1, s2 \in SortedKeys(cache) :
                  AfterEnforce(cache, s1) = AfterEnforce(cache, s2)

\* C15: the steps of a lookup (taking the lock, the get with the TTL test,
\* the hit response or the miss) leave the map as it was: no entry is added
\* or removed and no timestamp changes
C15_LookupLeavesCache ==
    [][\A r \in Requests :
          (pc[r] \in {"lookup", "locked_lookup"} /\ pc'[r] # pc[r])
              => cache' = cache]_vars

\* a handler was answered from an entry inserted at time 0 when the entry was
\* half a TTL old; the entry still carries the timestamp 0
C15_Witness ==
    \E r \in Requests :
        /\ pc[r] = "done"
        /\ r \notin DOMAIN result
        /\ response[r].status = OK
        /\ now = TickStep
        /\ lock = NoOwner
        /\ cache_key[r] \in Present(cache)
        /\ cache[cache_key[r]].inserted = 0
        /\ cache[cache_key[r]].result.data = response[r].body

\* C16: every entry in the map carries the SHA-1 fingerprint of its own
\* payload as its etag, never the empty placeholder; every OK response carries
\* the fingerprint of its body and the content type of the result, so the
\* response of a hit equals the response of the miss that stored the entry
C16_EtagOfPayload ==
    /\ \A k \in Present(cache) :
          /\ cache[k].result.etag = Sha1Hex(cache[k].result.data)
          /\ cache[k].result.etag # ""
    /\ \A r \in Requests :
          (pc[r] = "done" /\ response[r].status = OK)
              => /\ response[r].etag = Sha1Hex(response[r].body)
                 /\ response[r].etag # ""
                 /\ response[r].content_type = "image/jpeg"
    /\ \A r1, r2 \in Requests :
          (/\ pc[r1] = "done" /\ response[r1].status = OK
           /\ pc[r2] = "done" /\ response[r2].status = OK
           /\ response[r1].body = response[r2].body)
              => response[r1] = response[r2]

\* one handler missed, computed and stored an entry, the other was answered
\* from that entry, and the two responses are equal
C16_Witness ==
    \E r1, r2 \in Requests :
        /\ pc[r1] = "done" /\ r1 \in DOMAIN result
        /\ pc[r2] = "done" /\ r2 \notin DOMAIN result
        /\ cache_key[r1] = cache_key[r2]
        /\ cache_key[r1] \in Present(cache)
        /\ cache[cache_key[r1]].result = result[r1]
        /\ response[r1].status = OK
        /\ response[r2] = response[r1]

\* C17: enforce_cache_limit leaves the map as it is when the total is at most
\* the ceiling; otherwise each step of its loop removes one entry, the first
\* of the remaining sorted keys, from a map whose total is above the ceiling
\* (putting the entry back would exceed it), and the loop stops exactly when
\* the total left is at most the ceiling
C17_EvictsNoMoreThanNeeded ==
    [][\A r \in Requests :
          /\ (pc[r] = "enforce" /\ pc'[r] # "enforce")
                => /\ cache' = cache
                   /\ pc'[r] = IF TotalSize(cache) <= CACHE_MAX_SIZE
                               THEN "unlock" ELSE "evict"
          /\ (pc[r] = "evict" /\ (pc'[r] # "evict" \/ cache' # cache))
                => /\ TotalSize(cache) > CACHE_MAX_SIZE
                   /\ Present(cache') = Present(cache) \ {Head(keys)}
                   /\ \A k \in Present(cache') : cache'[k] = cache[k]
                   /\ pc'[r] = IF TotalSize(cache') <= CACHE_MAX_SIZE
                               THEN "unlock" ELSE "evict"]_vars

\* the pass removed the older entries and stopped with the youngest one, of
\* exactly the ceiling, left in the map
C17_Witness ==
    \E r \in Requests :
        /\ pc[r] = "unlock"
        /\ Len(keys) = 1
        /\ Present(cache) = {keys[1]}
        /\ cache[keys[1]].size = CACHE_MAX_SIZE
        /\ total_size = CACHE_MAX_SIZE

\* C18 as stated: when the pass of a put of a result of at most the ceiling
\* has ended, the map holds the entry of the handler's key with the computed
\* result
C18_FittingResultIsCached ==
    \A r \in Requests :
        (pc[r] = "unlock" /\ DataLen(result[r].data) <= CACHE_MAX_SIZE)
            => /\ cache_key[r] \in Present(cache)
               /\ cache[cache_key[r]].result = result[r]

\* C19: when a step removes an entry that is within its TTL, no entry that is
\* left in the map is expired; and an expired entry leaves the map or changes
\* only by a step of the eviction loop that removes it or by the insert of a
\* put for its key
C19_ExpiredEvictedFirst ==
    [][/\ \A k \in Present(cache) \ Present(cache') :
             (now - cache[k].inserted < CACHE_TTL)
                => \A k2 \in Present(cache') : now - cache'[k2].inserted < CACHE_TTL
       /\ \A k \in Present(cache) :
             (/\ now - cache[k].inserted >= CACHE_TTL
              /\ (k \notin Present(cache') \/ cache'[k] # cache[k]))
                => \E r \in Requests :
                      \/ pc[r] = "evict" /\ k = Head(keys) /\ k \notin Present(cache')
                      \/ /\ pc[r] = "insert"
                         /\ pc'[r] = "enforce"
                         /\ cache_key[r] = k]_vars

\* the eviction loop is about to remove an expired entry while an entry
\* within its TTL is in the map, and the expired entry is counted in the total
C19_Witness ==
    \E r \in Requests :
        /\ pc[r] = "evict"
        /\ Head(keys) \in Present(cache)
        /\ now - cache[Head(keys)].inserted >= CACHE_TTL
        /\ \E k \in Present(cache) : now - cache[k].inserted < CACHE_TTL
        /\ total_size = TotalSize(cache)

\* C20: every entry in the map has the byte length of its payload as its
\* size; from the first iteration of the loop of enforce_cache_limit to the
\* end of the pass total_size is the sum of the sizes of the entries in the
\* map, and the size the next iteration subtracts is at most total_size
C20_SizeAccounting ==
    /\ \A k \in Present(cache) : cache[k].size = DataLen(cache[k].result.data)
    /\ \A r \in Requests :
          /\ pc[r] \in {"evict", "unlock"}
                => total_size = TotalSize(cache) /\ total_size >= 0
          /\ pc[r] = "evict"
                => /\ keys # <<>>
                   /\ Head(keys) \in Present(cache)
                   /\ total_size - cache[Head(keys)].size >= 0

\* the pass has removed an entry and stopped with half the ceiling left, and
\* total_size is the sum of what is left
C20_Witness ==
    \E r \in Requests :
        /\ pc[r] = "unlock"
        /\ keys # <<>>
        /\ total_size = CACHE_MAX_SIZE \div 2
        /\ TotalSize(cache) = total_size
====
